---- MODULE Spec2Model ----
(***************************************************************************)
(* Model of data_controller/mongo.py: the card catalog (CardController)    *)
(* and the users collection with its embedded albums (UserController),     *)
(* driven by coroutines that suspend at every store round trip.            *)
(***************************************************************************)
EXTENDS Integers, Sequences, FiniteSets, TLC

\* ------------------------------------------------------------------ bounds
NProcs == 2      \* coroutines that may be in flight at once
MaxCalls == 2    \* repository calls started in one behaviour
MaxBatch == 2    \* longest new_cards list given to add_to_user_album
MaxCount == 1    \* largest count given to remove_from_user_album
MaxTime == 1     \* latest clock reading (milliseconds)
MaxUpserts == 3  \* upsert_card calls in one behaviour
MaxSample == 1   \* largest small count given to get_random_cards
MaxExtra == 1    \* cards a large catalog has beyond a to_list length
MaxRequest == 3  \* longest short card_ids list given to get_cards, and its largest id

Procs == 1..NProcs
UserIds == {"u1"}
CardIds == {1, 2}
\* The new_cards lists of calls that run one at a time: every list up to MaxBatch.
Batches == UNION {[1..n -> CardIds] : n \in 1..MaxBatch}
\* The new_cards lists of calls that interleave: one card, or two out of order.
ConcBatches == {<<1>>, <<2>>, <<2, 1>>}
Counts == 1..MaxCount

VARIABLES
    users,   \* the users collection: _id -> album (a sequence of entries)
    pc,      \* each coroutine's position
    call,    \* each coroutine's live arguments and locals
    ret,     \* each coroutine's outcome: a return value or the exception raised
    now,     \* the clock read by time.time()
    calls,   \* calls started so far
    pre,     \* history, kept for calls that run one at a time: the arguments of
             \* the coroutine's last call and the users collection as it found it
    cards,   \* the cards collection: _id -> document (field -> value)
    hist,    \* history: the cards given to upsert_card, in call order
    result,  \* what the last read of a collection returned
    serial   \* whether the caller awaits each call before it makes the next

vars == <<users, pc, call, ret, now, calls, pre, cards, hist, result, serial>>
catalogVars == <<cards, hist, result>>
userVars == <<users, pc, call, ret, now, calls, pre>>

\* --------------------------------------------------------- store operations

Min(S) == CHOOSE x \in S : \A y \in S : x <= y

\* Indices of the album elements whose id is card_id ('album.id': card_id).
Matches(album, card_id) == {i \in 1..Len(album) : album[i].id = card_id}

\* find({'_id': user_id}, {'album': {'$elemMatch': {'id': card_id}}}): the
\* documents found, each projected to _id and, when an element matches, to an
\* album holding the first matching element only.
FindElemMatch(us, user_id, card_id) ==
    IF user_id \notin DOMAIN us THEN <<>>
    ELSE IF Matches(us[user_id], card_id) = {} THEN <<[_id |-> user_id]>>
    ELSE <<[_id |-> user_id,
            album |-> <<us[user_id][Min(Matches(us[user_id], card_id))]>>]>>

\* _user_has_card: "raise" when find_one gave None (None has no keys()),
\* else whether the projected document has a key besides _id.
UserHasCard(us, user_id, card_id) ==
    LET search == FindElemMatch(us, user_id, card_id)
    IN  IF search = <<>> THEN "raise"
        ELSE IF Cardinality(DOMAIN search[1]) > 1 THEN "yes" ELSE "no"

\* Mutant of GetCardFromAlbum: the projection keeps the album's first element.
GetCardFromAlbumFirst(us, user_id, card_id) ==
    IF user_id \in DOMAIN us /\ Matches(us[user_id], card_id) # {}
    THEN <<us[user_id][1]>>
    ELSE <<>>

\* get_card_from_album: the matching entry, as a sequence of length 0 (None) or 1.
GetCardFromAlbum(us, user_id, card_id) ==
    LET search == FindElemMatch(us, user_id, card_id)
    IN  IF Len(search) > 0 /\ "album" \in DOMAIN search[1]
        THEN <<search[1].album[1]>>
        ELSE <<>>

\* Mutant of NewCard: the new entry's count starts at 0.
NewCardFromZero(card_id, t) ==
    [id |-> card_id, unidolized_count |-> 0, idolized_count |-> 0, time_aquired |-> t]

\* The new album entry built by add_to_user_album.
NewCard(card_id, t) ==
    [id |-> card_id, unidolized_count |-> 1, idolized_count |-> 0, time_aquired |-> t]

\* '$sort': {'id': 1}: the orders the store may leave the array in, every one
\* ascending by id (elements with equal ids in either order).
SortById(arr) ==
    {[i \in 1..Len(arr) |-> arr[f[i]]] :
        f \in {g \in Permutations(1..Len(arr)) :
                 \A i, j \in 1..Len(arr) : i < j => arr[g[i]].id <= arr[g[j]].id}}

\* Mutant of PushEachSort: the '$sort' is left out.
PushEachUnsorted(album, new_card) == {Append(album, new_card)}

\* {'$each': [new_card], '$sort': sort}: append, then sort the whole array.
PushEachSort(album, new_card) == SortById(Append(album, new_card))

\* Mutant of PushToAlbum: the update is an upsert, which makes the document.
PushToAlbumUpsert(us, user_id, new_card) ==
    IF user_id \notin DOMAIN us
    THEN {[u \in DOMAIN us \cup {user_id} |-> IF u = user_id THEN <<new_card>> ELSE us[u]]}
    ELSE {[us EXCEPT ![user_id] = a] : a \in PushEachSort(us[user_id], new_card)}

\* update_one({'_id': user_id}, {'$push': {'album': insert_card}}): the
\* collections the update may leave; unchanged when no document matches.
PushToAlbum(us, user_id, new_card) ==
    IF user_id \notin DOMAIN us THEN {us}
    ELSE {[us EXCEPT ![user_id] = a] : a \in PushEachSort(us[user_id], new_card)}

\* Mutant of IncEntry: the increment also moves the entry's timestamp.
IncEntryTouching(entry, idolized) ==
    IF idolized THEN [entry EXCEPT !.idolized_count = @ + 1, !.time_aquired = @ + 1]
    ELSE [entry EXCEPT !.unidolized_count = @ + 1, !.time_aquired = @ + 1]

\* Mutant of IncEntry: the idolized flag is ignored, as on first acquisition.
IncEntryUnidolizedOnly(entry, idolized) == [entry EXCEPT !.unidolized_count = @ + 1]

\* {'$inc': {'album.$.idolized_count': 1}} or the unidolized_count one.
IncEntry(entry, idolized) ==
    IF idolized THEN [entry EXCEPT !.idolized_count = @ + 1]
    ELSE [entry EXCEPT !.unidolized_count = @ + 1]

\* Mutant of IncInAlbum: the update addresses every element of the album.
IncInAlbumAll(us, user_id, card_id, idolized) ==
    IF user_id \notin DOMAIN us \/ Matches(us[user_id], card_id) = {} THEN us
    ELSE [us EXCEPT ![user_id] = [i \in 1..Len(@) |-> IncEntry(@[i], idolized)]]

\* update({'_id': user_id, 'album.id': card_id}, {'$inc': ...}): the positional
\* operator addresses the first matching element; no match, no change.
IncInAlbum(us, user_id, card_id, idolized) ==
    IF user_id \notin DOMAIN us \/ Matches(us[user_id], card_id) = {} THEN us
    ELSE LET i == Min(Matches(us[user_id], card_id))
         IN  [us EXCEPT ![user_id][i] = IncEntry(@, idolized)]

Max(a, b) == IF a >= b THEN a ELSE b

\* Mutant of NewCounts: the counts are clamped at zero.
NewCountsClamped(card, idolized, count) ==
    [unidolized_count |-> IF idolized THEN card.unidolized_count
                          ELSE Max(0, card.unidolized_count - count),
     idolized_count |-> IF idolized THEN Max(0, card.idolized_count - count)
                        ELSE card.idolized_count]

\* The new counts computed by remove_from_user_album from the entry it read.
NewCounts(card, idolized, count) ==
    [unidolized_count |-> IF idolized THEN card.unidolized_count
                          ELSE card.unidolized_count - count,
     idolized_count |-> IF idolized THEN card.idolized_count - count
                        ELSE card.idolized_count]

\* Mutant of SetInAlbum: the update's query leaves out the user's _id and
\* addresses the entry of every user who has the card.
SetInAlbumAnyUser(us, user_id, card_id, counts) ==
    [u \in DOMAIN us |->
        IF Matches(us[u], card_id) = {} THEN us[u]
        ELSE [us[u] EXCEPT ![Min(Matches(us[u], card_id))] =
                 [@ EXCEPT !.unidolized_count = counts.unidolized_count,
                           !.idolized_count = counts.idolized_count]]]

\* Mutant of SetInAlbum: an entry whose counts are both zero or below is pulled.
SetInAlbumPruning(us, user_id, card_id, counts) ==
    IF user_id \notin DOMAIN us \/ Matches(us[user_id], card_id) = {} THEN us
    ELSE LET i == Min(Matches(us[user_id], card_id))
             a == us[user_id]
         IN  IF counts.unidolized_count <= 0 /\ counts.idolized_count <= 0
             THEN [us EXCEPT ![user_id] = SubSeq(a, 1, i - 1) \o SubSeq(a, i + 1, Len(a))]
             ELSE [us EXCEPT ![user_id][i] =
                     [@ EXCEPT !.unidolized_count = counts.unidolized_count,
                               !.idolized_count = counts.idolized_count]]

\* update({'_id': user_id, 'album.id': card_id}, {'$set': {both counts}}).
SetInAlbum(us, user_id, card_id, counts) ==
    IF user_id \notin DOMAIN us \/ Matches(us[user_id], card_id) = {} THEN us
    ELSE LET i == Min(Matches(us[user_id], card_id))
         IN  [us EXCEPT ![user_id][i] =
                 [@ EXCEPT !.unidolized_count = counts.unidolized_count,
                           !.idolized_count = counts.idolized_count]]

\* insert_one({'_id': user_id, 'album': []}) on a collection without user_id.
InsertDoc(us, user_id) ==
    [u \in DOMAIN us \cup {user_id} |-> IF u = user_id THEN <<>> ELSE us[u]]

\* Mutant of DeleteDoc: every document goes with the one deleted.
DeleteDocMany(us, user_id) == IF user_id \in DOMAIN us THEN <<>> ELSE us

\* delete_one({'_id': user_id}).
DeleteDoc(us, user_id) == [u \in DOMAIN us \ {user_id} |-> us[u]]

\* ------------------------------------------------------------- coroutines

NoEntry == [id |-> 0, unidolized_count |-> 0, idolized_count |-> 0, time_aquired |-> 0]
NoCall == [op |-> "none", user_id |-> "", new_cards |-> <<>>, idolized |-> FALSE,
           card_id |-> 0, count |-> 0, card |-> NoEntry]

\* No CardController read was made.
NoResult == [op |-> "none", filters |-> <<>>, count |-> 0, cards |-> <<>>]

\* No call of the coroutine is in flight: none was made yet, or the last one ended.
Idle(p) == pc[p] \in {"idle", "done"}

\* The store outlives the client: at construction the users collection holds
\* what earlier runs left, here any of the users, each with an empty album or
\* with the album a first add_to_user_album of card 1 leaves.
InitAlbums == {<<>>, <<NewCard(1, 0)>>}
InitUsers == UNION {[D -> InitAlbums] : D \in SUBSET UserIds}

\* Calls interleave at their round trips.
Init ==
    /\ serial = FALSE
    /\ users \in InitUsers
    /\ pc = [p \in Procs |-> "idle"]
    /\ call = [p \in Procs |-> NoCall]
    /\ ret = [p \in Procs |-> "none"]
    /\ now = 0
    /\ calls = 0
    /\ pre = [p \in Procs |-> [users |-> <<>>, call |-> NoCall]]
    /\ cards = <<>>
    /\ hist = <<>>
    /\ result = NoResult

\* Calls are made one at a time, all by one caller.
InitSeq ==
    /\ serial = TRUE
    /\ users \in InitUsers
    /\ pc = [p \in Procs |-> "idle"]
    /\ call = [p \in Procs |-> NoCall]
    /\ ret = [p \in Procs |-> "none"]
    /\ now = 0
    /\ calls = 0
    /\ pre = [p \in Procs |-> [users |-> <<>>, call |-> NoCall]]
    /\ cards = <<>>
    /\ hist = <<>>
    /\ result = NoResult

\* Coroutine p may be called with arguments c: it is not running, the
\* coroutines never run so far are taken in order, and a caller that awaits
\* each call has started no other coroutine. The history notes the arguments
\* and the store as the call finds it.
Called(p, c) ==
    /\ Idle(p)
    /\ \A q \in Procs : q < p => pc[q] # "idle"
    /\ serial => \A q \in Procs \ {p} : pc[q] = "idle"
    /\ calls < MaxCalls
    /\ calls' = calls + 1
    /\ pre' = IF serial THEN [pre EXCEPT ![p] = [users |-> users, call |-> c]] ELSE pre
    /\ UNCHANGED <<catalogVars, serial>>

\* A step inside a call: the history and the catalog stay.
Running == UNCHANGED <<calls, pre, catalogVars, serial>>

\* A call begins: its arguments are bound and its first round trip is sent.
Begin(p, c, at) ==
    /\ Called(p, c)
    /\ call' = [call EXCEPT ![p] = c]
    /\ pc' = [pc EXCEPT ![p] = at]
    /\ ret' = [ret EXCEPT ![p] = "none"]
    /\ UNCHANGED <<users, now>>

\* The coroutine ends with outcome r (a return value or an exception); its
\* locals are gone.
Finish(p, r) ==
    /\ pc' = [pc EXCEPT ![p] = "done"]
    /\ ret' = [ret EXCEPT ![p] = r]
    /\ call' = [call EXCEPT ![p] = NoCall]

\* insert_user is called.
InsertBegin(p, user_id) ==
    Begin(p, [NoCall EXCEPT !.op = "insert_user", !.user_id = user_id], "insert_one")

\* Mutant of InsertUser: the document is written over an existing one.
InsertUserOverwriting(p) ==
    /\ pc[p] = "insert_one"
    /\ Finish(p, "None")
    /\ users' = InsertDoc(users, call[p].user_id)
    /\ UNCHANGED now
    /\ Running

\* The store applies insert_one; it refuses a second document with the _id.
InsertUser(p) ==
    /\ pc[p] = "insert_one"
    /\ IF call[p].user_id \in DOMAIN users
       THEN /\ Finish(p, "DuplicateKeyError")
            /\ UNCHANGED users
       ELSE /\ Finish(p, "None")
            /\ users' = InsertDoc(users, call[p].user_id)
    /\ UNCHANGED now
    /\ Running

\* delete_user is called.
DeleteBegin(p, user_id) ==
    Begin(p, [NoCall EXCEPT !.op = "delete_user", !.user_id = user_id], "delete_one")

\* The store applies delete_one.
DeleteUser(p) ==
    /\ pc[p] = "delete_one"
    /\ users' = DeleteDoc(users, call[p].user_id)
    /\ Finish(p, "None")
    /\ UNCHANGED now
    /\ Running

\* add_to_user_album is called; with an empty list the loop body never runs.
AddBegin(p, user_id, new_cards, idolized) ==
    /\ Begin(p, [NoCall EXCEPT !.op = "add_to_user_album", !.user_id = user_id,
                               !.new_cards = new_cards, !.idolized = idolized],
             "has_card")

\* add_to_user_album with an empty list returns at once, without a round trip.
AddNothing(p, user_id, idolized) ==
    /\ Called(p, [NoCall EXCEPT !.op = "add_to_user_album", !.user_id = user_id,
                                !.idolized = idolized])
    /\ Finish(p, "None")
    /\ UNCHANGED <<users, now>>

\* The loop's check of its current card (the head of the cards still to do):
\* await _user_has_card(user_id, card['_id']); on "no" the new entry is built
\* with the clock's reading.
AddHasCard(p) ==
    /\ pc[p] = "has_card"
    /\ LET c == call[p]
           has == UserHasCard(users, c.user_id, Head(c.new_cards))
       IN  CASE has = "raise" ->
                  /\ Finish(p, "AttributeError")
                  /\ UNCHANGED now
             [] has = "no" ->
                  \E t \in now..MaxTime :
                    /\ now' = t
                    /\ call' = [call EXCEPT ![p].card = NewCard(Head(c.new_cards), t)]
                    /\ pc' = [pc EXCEPT ![p] = "push"]
                    /\ UNCHANGED ret
             [] has = "yes" ->
                  /\ pc' = [pc EXCEPT ![p] = "inc"]
                  /\ UNCHANGED <<call, ret, now>>
    /\ UNCHANGED users
    /\ Running

\* The loop goes to its next card, or the coroutine returns.
AddNext(p) ==
    IF Len(call[p].new_cards) > 1
    THEN /\ call' = [call EXCEPT ![p].new_cards = Tail(@), ![p].card = NoEntry]
         /\ pc' = [pc EXCEPT ![p] = "has_card"]
         /\ UNCHANGED ret
    ELSE Finish(p, "None")

\* The store applies the $push of the new entry.
AddPush(p) ==
    /\ pc[p] = "push"
    /\ users' \in PushToAlbum(users, call[p].user_id, call[p].card)
    /\ AddNext(p)
    /\ UNCHANGED now
    /\ Running

\* The store applies the $inc of the selected counter.
AddInc(p) ==
    /\ pc[p] = "inc"
    /\ users' = IncInAlbum(users, call[p].user_id, Head(call[p].new_cards),
                           call[p].idolized)
    /\ AddNext(p)
    /\ UNCHANGED now
    /\ Running

\* remove_from_user_album is called.
RemoveBegin(p, user_id, card_id, idolized, count) ==
    Begin(p, [NoCall EXCEPT !.op = "remove_from_user_album", !.user_id = user_id,
                            !.card_id = card_id, !.idolized = idolized,
                            !.count = count],
          "get_card")

\* card = await self.get_card_from_album(user_id, card_id); if not card: return False.
RemoveGetCard(p) ==
    /\ pc[p] = "get_card"
    /\ LET card == GetCardFromAlbum(users, call[p].user_id, call[p].card_id)
       IN  IF card = <<>>
           THEN Finish(p, "False")
           ELSE /\ call' = [call EXCEPT ![p].card = card[1]]
                /\ pc' = [pc EXCEPT ![p] = "set"]
                /\ UNCHANGED ret
    /\ UNCHANGED <<users, now>>
    /\ Running

\* The store applies the $set of both counts; return True.
RemoveSet(p) ==
    /\ pc[p] = "set"
    /\ users' = SetInAlbum(users, call[p].user_id, call[p].card_id,
                           NewCounts(call[p].card, call[p].idolized, call[p].count))
    /\ Finish(p, "True")
    /\ UNCHANGED now
    /\ Running

\* Mutant of StoreFails: the failed call's earlier writes are rolled back.
StoreFailsRollingBack(p) ==
    /\ pc[p] \notin {"idle", "done"}
    /\ Finish(p, "StoreError")
    /\ users' = IF serial THEN pre[p].users ELSE users
    /\ UNCHANGED now
    /\ Running

\* A pending round trip fails: the awaited driver call raises, the store is not
\* changed by it, and the exception leaves the coroutine.
StoreFails(p) ==
    /\ pc[p] \notin {"idle", "done"}
    /\ Finish(p, "StoreError")
    /\ UNCHANGED <<users, now>>
    /\ Running

\* A step of coroutine p.
Step(p) ==
    \/ \E u \in UserIds : InsertBegin(p, u)
    \/ InsertUser(p)
    \/ \E u \in UserIds : DeleteBegin(p, u)
    \/ DeleteUser(p)
    \/ \E u \in UserIds, b \in IF serial THEN Batches ELSE ConcBatches, i \in BOOLEAN :
          AddBegin(p, u, b, i)
    \/ \E u \in UserIds, i \in BOOLEAN : AddNothing(p, u, i)
    \/ AddHasCard(p)
    \/ AddPush(p)
    \/ AddInc(p)
    \/ \E u \in UserIds, c \in CardIds, i \in BOOLEAN, n \in Counts :
          RemoveBegin(p, u, c, i, n)
    \/ RemoveGetCard(p)
    \/ RemoveSet(p)
    \/ StoreFails(p)

Next == \E p \in Procs : Step(p)

\* Coroutines interleave at their round trips.
Spec == Init /\ [][Next]_vars

\* One call at a time.
SpecSeq == InitSeq /\ [][Next]_vars

\* ---------------------------------------------------------- CardController

\* to_list(length=100) in get_random_cards.
ToListLength == 100

\* Two of a card's attribute fields, and the values each takes.
Fields == {"rarity", "attribute"}
FieldValues == [rarity |-> {"R", "UR"}, attribute |-> {"Smile", "Pure"}]

\* The assignments of values to the fields F.
Assignments(F) == {v \in [F -> {"R", "UR", "Smile", "Pure"}] : \A f \in F : v[f] \in FieldValues[f]}

\* The card dictionaries given to upsert_card: an id and any of the fields.
InputCards ==
    UNION {{[f \in F \cup {"id"} |-> IF f = "id" THEN i ELSE v[f]] : v \in Assignments(F)} :
              <<i, F>> \in CardIds \X SUBSET Fields}

\* card = copy.deepcopy(card); card['_id'] = card['id']; del card['id'].
KeyedCard(card) ==
    [f \in (DOMAIN card \ {"id"}) \cup {"_id"} |-> IF f = "_id" THEN card["id"] ELSE card[f]]

\* Mutant of SetFields: the document is replaced by the fields given.
SetFieldsReplacing(doc, fields) ==
    [f \in DOMAIN fields \cup {"_id"} |-> IF f \in DOMAIN fields THEN fields[f] ELSE doc[f]]

\* {'$set': card} on a document: the fields given are written, the others stay.
SetFields(doc, fields) ==
    [f \in DOMAIN doc \cup DOMAIN fields |->
        IF f \in DOMAIN fields THEN fields[f] ELSE doc[f]]

\* update({'_id': id}, {'$set': card}, upsert=True): the matching document is
\* updated; without one, a document is made of the query's _id and the update.
UpdateUpsert(cs, card) ==
    LET id == card["_id"]
    IN  IF id \in DOMAIN cs THEN [cs EXCEPT ![id] = SetFields(@, card)]
        ELSE [i \in DOMAIN cs \cup {id} |->
                 IF i = id THEN SetFields([_id |-> id], card) ELSE cs[i]]

\* An empty store, no call made.
InitCards ==
    /\ serial = TRUE
    /\ users = <<>>
    /\ pc = [p \in Procs |-> "idle"]
    /\ call = [p \in Procs |-> NoCall]
    /\ ret = [p \in Procs |-> "none"]
    /\ now = 0
    /\ calls = 0
    /\ pre = [p \in Procs |-> [users |-> <<>>, call |-> NoCall]]
    /\ cards = <<>>
    /\ hist = <<>>
    /\ result = NoResult

\* upsert_card(card): one round trip.
UpsertCard(card) ==
    /\ Len(hist) < MaxUpserts
    /\ cards' = UpdateUpsert(cards, KeyedCard(card))
    /\ hist' = Append(hist, card)
    /\ UNCHANGED <<userVars, result, serial>>

NextCards == \E card \in InputCards : UpsertCard(card)

\* upsert_card calls on an empty catalog.
SpecCards == InitCards /\ [][NextCards]_vars

\* {'$match': filters} with equality filters: the document has every field
\* of the filter, with the filter's value.
MatchFilters(doc, filters) ==
    \A f \in DOMAIN filters : f \in DOMAIN doc /\ doc[f] = filters[f]

\* The documents of the collection that pass the $match stage.
Matching(cs, filters) == {cs[i] : i \in {j \in DOMAIN cs : MatchFilters(cs[j], filters)}}

\* The subsets of S with k elements (all of S when it has fewer).
RECURSIVE KSubsets(_, _)
KSubsets(S, k) ==
    IF k >= Cardinality(S) THEN {S}
    ELSE IF k = 0 THEN {{}}
    ELSE IF 2 * k > Cardinality(S)
    THEN {S \ X : X \in KSubsets(S, Cardinality(S) - k)}
    ELSE UNION {{T \cup {x} : x \in S \ T} : T \in KSubsets(S, k - 1)}

\* {'$sample': {'size': count}}: count documents picked at random without
\* replacement, all of them when there are fewer.
Sample(docs, count) == KSubsets(docs, count)

\* cursor.to_list(length): the first length documents of the cursor; of
\* documents that come in random order, any length of them.
ToList(docs, length) == KSubsets(docs, length)

\* A set of documents as a list, here in _id order.
AsList(docs) ==
    LET ids == {d["_id"] : d \in docs}
        byId == [i \in ids |-> CHOOSE d \in docs : d["_id"] = i]
        rank == [i \in ids |-> Cardinality({j \in ids : j < i}) + 1]
        at == [r \in 1..Cardinality(ids) |-> CHOOSE i \in ids : rank[i] = r]
    IN  [r \in 1..Cardinality(ids) |-> byId[at[r]]]

\* The lists get_random_cards(filters, count) may return.
GetRandomCardsResults(cs, filters, count) ==
    {AsList(T) : T \in UNION {ToList(S, ToListLength) :
                                S \in Sample(Matching(cs, filters), count)}}

\* The filters given to get_random_cards: equalities on any of the fields.
Filters == UNION {Assignments(F) : F \in SUBSET Fields}

\* The counts given to get_random_cards: small ones, and ones around ToListLength.
SampleCounts == (0..MaxSample) \cup (ToListLength..(ToListLength + MaxExtra + 1))

\* A catalog of the cards 1..n, all "UR" and "Smile" but the last n - k.
Catalog(n, k) ==
    [i \in 1..n |-> [_id |-> i, rarity |-> IF i <= k THEN "UR" ELSE "R",
                     attribute |-> "Smile"]]

\* The catalogs get_random_cards is run on: each small one with whole
\* documents, and large ones of more than ToListLength cards.
Catalogs ==
    UNION {[D -> {[_id |-> 0] @@ v : v \in Assignments(Fields)}] : D \in SUBSET CardIds}
    \cup {Catalog(n, k) : n \in (ToListLength + 1)..(ToListLength + MaxExtra),
                          k \in {ToListLength, ToListLength + 1}}

\* A catalog whose documents carry their own _id.
WithIds(cs) == [i \in DOMAIN cs |-> [cs[i] EXCEPT !["_id"] = i]]

\* A catalog earlier upserts left, and a get_random_cards call about to be made.
InitRandom ==
    /\ serial = TRUE
    /\ users = <<>>
    /\ pc = [p \in Procs |-> "idle"]
    /\ call = [p \in Procs |-> NoCall]
    /\ ret = [p \in Procs |-> "none"]
    /\ now = 0
    /\ calls = 0
    /\ pre = [p \in Procs |-> [users |-> <<>>, call |-> NoCall]]
    /\ cards \in {WithIds(cs) : cs \in Catalogs}
    /\ hist = <<>>
    /\ result \in {[op |-> "called", filters |-> f, count |-> n, cards |-> <<>>] :
                      f \in Filters, n \in SampleCounts}

\* get_random_cards(filters, count): the aggregate's round trip and to_list.
GetRandomCards ==
    /\ result.op = "called"
    /\ \E r \in GetRandomCardsResults(cards, result.filters, result.count) :
          result' = [result EXCEPT !.op = "returned", !.cards = r]
    /\ UNCHANGED <<userVars, cards, hist, serial>>

NextRandom == GetRandomCards

\* get_random_cards on a catalog, with a filter and a count.
SpecRandom == InitRandom /\ [][NextRandom]_vars

\* ------------------------------------------------- CardController's reads

\* to_list(length=10000) in get_cards.
GetCardsLength == 10000

\* The top-level fields that get_cards' projection shows, besides _id.
ShownFields == {"idol", "rarity", "attribute", "card_image", "card_idolized_image",
                "round_card_image", "round_card_idolized_image"}

\* find's projection of a document: _id and the shown fields it has.
Project(doc) == [f \in DOMAIN doc \cap (ShownFields \cup {"_id"}) |-> doc[f]]

\* The ids 1..n as a list.
IdList(n) == [i \in 1..n |-> i]

\* The elements of a list.
Range(s) == {s[k] : k \in 1..Len(s)}

\* {'_id': {'$in': card_ids}}: the ids of the documents found, each once
\* whatever the repetitions in card_ids, as a list in _id order.
FoundIds(cs, card_ids) ==
    LET asked == {card_ids[i] : i \in 1..Len(card_ids)}
    IN  SelectSeq(IdList(GetCardsLength + MaxExtra),
                  LAMBDA i : i \in DOMAIN cs /\ i \in asked)

\* The orders in which find's cursor may yield the documents found (the store
\* promises none without a sort): here the _id index's, forward or backward.
CursorOrders(found) == {found, [k \in 1..Len(found) |-> found[Len(found) + 1 - k]]}

\* cursor.to_list(length): the first length documents of the cursor, all of
\* them when there are no more.
FirstOf(list, length) == SubSeq(list, 1, Min({length, Len(list)}))

\* The lists get_cards(card_ids) may return: the projections of the first
\* GetCardsLength documents of the cursor.
GetCardsResults(cs, card_ids) ==
    {[k \in 1..Len(ids) |-> Project(cs[ids[k]])] :
        ids \in {FirstOf(order, GetCardsLength) :
                    order \in CursorOrders(FoundIds(cs, card_ids))}}

\* The catalogs the reads are run on: small ones, whose documents may have a
\* field the projection hides, and one of more than GetCardsLength cards.
SmallDocs == {[_id |-> 0, rarity |-> "UR", attribute |-> "Smile"],
              [_id |-> 0, rarity |-> "R", hp |-> 1]}
ReadCatalogs ==
    UNION {[D -> SmallDocs] : D \in SUBSET CardIds}
    \cup {[i \in 1..(GetCardsLength + MaxExtra) |-> [_id |-> i]]}

\* The card_ids lists given to get_cards: short ones, with repetitions and
\* with an id no catalog has, and the list of every id of the large catalog.
RequestIds == 1..MaxRequest
Requests ==
    UNION {[1..n -> RequestIds] : n \in 0..MaxRequest}
    \cup {IdList(GetCardsLength + MaxExtra)}

\* A catalog earlier upserts left, and a get_cards or get_card call about to be made.
InitReads ==
    /\ serial = TRUE
    /\ users = <<>>
    /\ pc = [p \in Procs |-> "idle"]
    /\ call = [p \in Procs |-> NoCall]
    /\ ret = [p \in Procs |-> "none"]
    /\ now = 0
    /\ calls = 0
    /\ pre = [p \in Procs |-> [users |-> <<>>, call |-> NoCall]]
    /\ cards \in {WithIds(cs) : cs \in ReadCatalogs}
    /\ hist = <<>>
    /\ result \in {[op |-> "get_cards", card_ids |-> r, cards |-> <<>>] : r \in Requests}
                  \cup {[op |-> "get_card", card_ids |-> <<c>>, cards |-> <<>>] :
                           c \in RequestIds}

\* get_cards(card_ids): find's round trip and to_list.
GetCards ==
    /\ result.op = "get_cards"
    /\ \E r \in GetCardsResults(cards, result.card_ids) :
          result' = [result EXCEPT !.op = "got_cards", !.cards = r]
    /\ UNCHANGED <<userVars, cards, hist, serial>>

\* get_card(card_id): cards = await self.get_cards([card_id]); cards[0] when
\* the list is not empty, else None (here a list of one card or of none).
GetCard ==
    /\ result.op = "get_card"
    /\ \E r \in GetCardsResults(cards, result.card_ids) :
          result' = [result EXCEPT !.op = "got_card",
                                   !.cards = IF Len(r) > 0 THEN <<r[1]>> ELSE <<>>]
    /\ UNCHANGED <<userVars, cards, hist, serial>>

NextReads == GetCards \/ GetCard

\* get_cards and get_card on a catalog.
SpecReads == InitReads /\ [][NextReads]_vars

\* ------------------------------------------------------------ several users

\* The user ids of calls made for more than one user.
AllUserIds == {"u1", "u2"}

\* The new_cards lists of those calls: one card each.
OneCardBatches == {<<c>> : c \in CardIds}

\* The users collection earlier runs left for those users, and the catalog:
\* empty, or holding card 1.
InitAllUsers == UNION {[D -> InitAlbums] : D \in SUBSET AllUserIds}
OneCardCatalog == WithIds([i \in {1} |-> [_id |-> 0, rarity |-> "UR"]])
InitCatalogs == {<<>>, OneCardCatalog}

\* Several users' calls interleave at their round trips; the users exist and
\* the catalog holds its card.
InitUsers2 ==
    /\ serial = FALSE
    /\ users \in [AllUserIds -> InitAlbums]
    /\ pc = [p \in Procs |-> "idle"]
    /\ call = [p \in Procs |-> NoCall]
    /\ ret = [p \in Procs |-> "none"]
    /\ now = 0
    /\ calls = 0
    /\ pre = [p \in Procs |-> [users |-> <<>>, call |-> NoCall]]
    /\ cards = OneCardCatalog
    /\ hist = <<>>
    /\ result = NoResult

\* Several users' calls are made one at a time.
InitUsers2Seq ==
    /\ serial = TRUE
    /\ users \in InitAllUsers
    /\ pc = [p \in Procs |-> "idle"]
    /\ call = [p \in Procs |-> NoCall]
    /\ ret = [p \in Procs |-> "none"]
    /\ now = 0
    /\ calls = 0
    /\ pre = [p \in Procs |-> [users |-> <<>>, call |-> NoCall]]
    /\ cards \in InitCatalogs
    /\ hist = <<>>
    /\ result = NoResult

\* A step of coroutine p, its call made for any of the users.
StepUsers(p) ==
    \/ \E u \in AllUserIds : InsertBegin(p, u)
    \/ InsertUser(p)
    \/ \E u \in AllUserIds : DeleteBegin(p, u)
    \/ DeleteUser(p)
    \/ \E u \in AllUserIds, b \in OneCardBatches, i \in BOOLEAN : AddBegin(p, u, b, i)
    \/ AddHasCard(p)
    \/ AddPush(p)
    \/ AddInc(p)
    \/ \E u \in AllUserIds, c \in CardIds, i \in BOOLEAN, n \in Counts :
          RemoveBegin(p, u, c, i, n)
    \/ RemoveGetCard(p)
    \/ RemoveSet(p)
    \/ StoreFails(p)

NextUsers == \E p \in Procs : StepUsers(p)

\* The user a coroutine's calls are for: the callers take turns over the users.
UserOf(p) == IF p % 2 = 1 THEN "u1" ELSE "u2"

\* A step of coroutine p when the calls in flight are add_to_user_album and
\* remove_from_user_album calls, each coroutine's for its user.
StepMutations(p) ==
    \/ \E b \in OneCardBatches, i \in BOOLEAN : AddBegin(p, UserOf(p), b, i)
    \/ AddHasCard(p)
    \/ AddPush(p)
    \/ AddInc(p)
    \/ \E c \in CardIds, i \in BOOLEAN, n \in Counts : RemoveBegin(p, UserOf(p), c, i, n)
    \/ RemoveGetCard(p)
    \/ RemoveSet(p)

NextMutations == \E p \in Procs : StepMutations(p)

\* Album mutations for several users, interleaving.
SpecUsers == InitUsers2 /\ [][NextMutations]_vars

\* The coroutines of UserController called for several users, one at a time.
SpecUsersSeq == InitUsers2Seq /\ [][NextUsers]_vars

\* ------------------------------------------------------------- album reads

\* find_user(user_id): find_one's document as a list of one, or of none (None).
FindUser(us, user_id) ==
    IF user_id \in DOMAIN us THEN <<[_id |-> user_id, album |-> us[user_id]]>> ELSE <<>>

\* get_user_album is called.
GetAlbumBegin(p, user_id) ==
    Begin(p, [NoCall EXCEPT !.op = "get_user_album", !.user_id = user_id], "find_one")

\* user_doc = await self.find_user(user_id); [] without one, else its album.
\* The value returned is noted in result.
GetAlbum(p) ==
    /\ pc[p] = "find_one"
    /\ LET user_doc == FindUser(users, call[p].user_id)
       IN  result' = [op |-> "get_user_album",
                      value |-> IF user_doc = <<>> THEN <<>> ELSE user_doc[1].album]
    /\ Finish(p, "value")
    /\ UNCHANGED <<users, now, calls, pre, cards, hist, serial>>

\* get_card_from_album is called.
GetEntryBegin(p, user_id, card_id) ==
    Begin(p, [NoCall EXCEPT !.op = "get_card_from_album", !.user_id = user_id,
                            !.card_id = card_id],
          "find")

\* search = await cursor.to_list(length=10000); the entry or None (here a list
\* of one entry or of none). The value returned is noted in result.
GetEntry(p) ==
    /\ pc[p] = "find"
    /\ result' = [op |-> "get_card_from_album",
                  value |-> GetCardFromAlbum(users, call[p].user_id, call[p].card_id)]
    /\ Finish(p, "value")
    /\ UNCHANGED <<users, now, calls, pre, cards, hist, serial>>

\* A step of coroutine p: a read of an album, or a step of a call that makes
\* a user or adds a card.
StepAlbum(p) ==
    \/ \E u \in UserIds : GetAlbumBegin(p, u)
    \/ GetAlbum(p)
    \/ \E u \in UserIds, c \in CardIds : GetEntryBegin(p, u, c)
    \/ GetEntry(p)
    \/ \E u \in UserIds : InsertBegin(p, u)
    \/ InsertUser(p)
    \/ \E u \in UserIds, b \in OneCardBatches, i \in BOOLEAN : AddBegin(p, u, b, i)
    \/ AddHasCard(p)
    \/ AddPush(p)
    \/ AddInc(p)
    \/ StoreFails(p)

NextAlbum == \E p \in Procs : StepAlbum(p)

\* Album reads among insert_user and add_to_user_album calls, one call at a time.
SpecAlbum == InitSeq /\ [][NextAlbum]_vars

\* ----------------------------------------------------------------- claims

\* The card ids of an album, with repetitions, in album order.
IdSeq(album) == [i \in 1..Len(album) |-> album[i].id]
IdSet(album) == {album[i].id : i \in 1..Len(album)}

\* The entry of the album for card_id, when there is exactly one.
EntryFor(album, card_id) == album[CHOOSE i \in 1..Len(album) : album[i].id = card_id]

\* How often card_id occurs in a list of card ids.
Occurrences(cs, card_id) == Cardinality({i \in 1..Len(cs) : cs[i] = card_id})

\* Coroutine p ran the whole of a call of op and its outcome is there.
Ended(p, op) == pc[p] = "done" /\ pre[p].call.op = op

\* ------------------------------------------------- adds of owned cards only

\* The albums of a user who owns the cards to be added: card 1, or cards 1 and 2.
OwnedAlbums == {<<NewCard(1, 0)>>, <<NewCard(1, 0), NewCard(2, 0)>>}

\* One user, who owns cards; calls interleave at their round trips.
InitOwned ==
    /\ serial = FALSE
    /\ users \in [UserIds -> OwnedAlbums]
    /\ pc = [p \in Procs |-> "idle"]
    /\ call = [p \in Procs |-> NoCall]
    /\ ret = [p \in Procs |-> "none"]
    /\ now = 0
    /\ calls = 0
    /\ pre = [p \in Procs |-> [users |-> <<>>, call |-> NoCall]]
    /\ cards = <<>>
    /\ hist = <<>>
    /\ result = NoResult

\* A step of coroutine p when add_to_user_album is the only call made, each
\* call for one card the user owns, and every round trip succeeds.
StepAdds(p) ==
    \/ \E u \in DOMAIN users, b \in OneCardBatches, i \in BOOLEAN :
          /\ b[1] \in IdSet(users[u])
          /\ AddBegin(p, u, b, i)
    \/ AddHasCard(p)
    \/ AddInc(p)

NextAdds == \E p \in Procs : StepAdds(p)

\* Concurrent add_to_user_album calls for owned cards.
SpecAdds == InitOwned /\ [][NextAdds]_vars

\* C1: each user's album holds at most one entry per card id, in every
\* reachable state, also when add_to_user_album calls interleave.
C1_Unique ==
    \A u \in DOMAIN users : \A i, j \in 1..Len(users[u]) :
        users[u][i].id = users[u][j].id => i = j

\* C2: add_to_user_album(user, [c], idolized), run alone, for a user whose
\* album has an entry for c: the album keeps its length and its other entries,
\* and the entry for c has the selected counter higher by exactly 1, the other
\* counter and the timestamp as they were.
C2_IncrementOwned ==
    \A p \in Procs :
        LET c == pre[p].call
            before == pre[p].users
            cid == c.new_cards[1]
        IN  ( /\ Ended(p, "add_to_user_album") /\ ret[p] = "None"
              /\ Len(c.new_cards) = 1
              /\ c.user_id \in DOMAIN before
              /\ cid \in IdSet(before[c.user_id]) )
            => /\ DOMAIN users = DOMAIN before
               /\ \A u \in DOMAIN users \ {c.user_id} : users[u] = before[u]
               /\ Len(users[c.user_id]) = Len(before[c.user_id])
               /\ \A i \in 1..Len(users[c.user_id]) :
                    LET old == before[c.user_id][i]
                        new == users[c.user_id][i]
                    IN  IF old.id # cid THEN new = old
                        ELSE /\ new.id = cid
                             /\ new.time_aquired = old.time_aquired
                             /\ new.idolized_count =
                                  old.idolized_count + (IF c.idolized THEN 1 ELSE 0)
                             /\ new.unidolized_count =
                                  old.unidolized_count + (IF c.idolized THEN 0 ELSE 1)

\* C2's case: a second add of card 1 has ended and the one entry for it went
\* from unidolized_count 1 to unidolized_count 2.
C2_Witness ==
    \E p \in Procs : \E u \in DOMAIN users :
        /\ Ended(p, "add_to_user_album") /\ ret[p] = "None"
        /\ pre[p].call.new_cards = <<1>> /\ ~pre[p].call.idolized
        /\ pre[p].call.user_id = u /\ u \in DOMAIN pre[p].users
        /\ Len(pre[p].users[u]) = 1 /\ Len(users[u]) = 1
        /\ pre[p].users[u][1].id = 1
        /\ pre[p].users[u][1].unidolized_count = 1
        /\ users[u][1].unidolized_count = 2 /\ users[u][1].idolized_count = 0

\* C3: add_to_user_album(user, [c], idolized), run alone, for an existing user
\* with no entry for c, whatever the idolized flag: the album then has exactly
\* one entry for c, with unidolized_count 1 and idolized_count 0, and its other
\* entries are the ones it had, in their order.
C3_FirstAcquisition ==
    \A p \in Procs :
        LET c == pre[p].call
            before == pre[p].users
            cid == c.new_cards[1]
        IN  ( /\ Ended(p, "add_to_user_album") /\ ret[p] = "None"
              /\ Len(c.new_cards) = 1
              /\ c.user_id \in DOMAIN before
              /\ cid \notin IdSet(before[c.user_id]) )
            => /\ DOMAIN users = DOMAIN before
               /\ \A u \in DOMAIN users \ {c.user_id} : users[u] = before[u]
               /\ Cardinality(Matches(users[c.user_id], cid)) = 1
               /\ EntryFor(users[c.user_id], cid).unidolized_count = 1
               /\ EntryFor(users[c.user_id], cid).idolized_count = 0
               /\ SelectSeq(users[c.user_id], LAMBDA e : e.id # cid) = before[c.user_id]

\* C3's case: a first add of card 2 with idolized = True has ended for a user
\* who owned card 1 only.
C3_Witness ==
    \E p \in Procs : \E u \in DOMAIN users :
        /\ Ended(p, "add_to_user_album") /\ ret[p] = "None"
        /\ pre[p].call.new_cards = <<2>> /\ pre[p].call.idolized
        /\ pre[p].call.user_id = u /\ u \in DOMAIN pre[p].users
        /\ IdSeq(pre[p].users[u]) = <<1>>
        /\ IdSeq(users[u]) = <<1, 2>>
        /\ users[u][2].unidolized_count = 1 /\ users[u][2].idolized_count = 0

\* C4: remove_from_user_album(user, c, idolized, count), run alone: it returns
\* False and leaves the store as it was when the user does not exist or the
\* album has no entry for c; otherwise it returns True and the selected counter
\* of the entry is its old value minus count, negative when count is larger.
C4_Remove ==
    \A p \in Procs :
        LET c == pre[p].call
            before == pre[p].users
            absent == c.user_id \notin DOMAIN before
                      \/ c.card_id \notin IdSet(before[c.user_id])
        IN  (Ended(p, "remove_from_user_album") /\ ret[p] # "StoreError")
            => IF absent
               THEN ret[p] = "False" /\ users = before
               ELSE /\ ret[p] = "True"
                    /\ c.user_id \in DOMAIN users
                    /\ Cardinality(Matches(users[c.user_id], c.card_id)) = 1
                    /\ LET old == EntryFor(before[c.user_id], c.card_id)
                           new == EntryFor(users[c.user_id], c.card_id)
                       IN  IF c.idolized
                           THEN new.idolized_count = old.idolized_count - c.count
                           ELSE new.unidolized_count = old.unidolized_count - c.count

\* C4's case: a remove with a count above the counter's value has returned
\* True and the counter is negative.
C4_Witness ==
    \E p \in Procs : \E u \in DOMAIN users :
        /\ Ended(p, "remove_from_user_album") /\ ret[p] = "True"
        /\ pre[p].call.user_id = u /\ pre[p].call.idolized
        /\ \E i \in 1..Len(users[u]) :
              /\ users[u][i].id = pre[p].call.card_id
              /\ users[u][i].idolized_count < 0

\* C5: every user's album is ascending by card id in every reachable state,
\* whatever the order and interleaving of the adds and removes.
C5_Ascending ==
    \A u \in DOMAIN users : \A i, j \in 1..Len(users[u]) :
        i < j => users[u][i].id <= users[u][j].id

\* C5's case: card 2 was acquired before card 1 and card 1 stands first.
C5_Witness ==
    \E u \in DOMAIN users :
        /\ IdSeq(users[u]) = <<1, 2>>
        /\ users[u][1].time_aquired > users[u][2].time_aquired

\* An album lost an entry: it is shorter, or has fewer entries of some card id.
LostEntry(old, new) ==
    \/ Len(new) < Len(old)
    \/ \E c \in IdSet(old) : Cardinality(Matches(new, c)) < Cardinality(Matches(old, c))

\* C6: no step of remove_from_user_album changes the card ids of an album or
\* its length, whatever the counters become; and an album loses an entry only
\* by delete_user's removal of its user.
C6_RemoveKeepsEntries ==
    [][ /\ \A p \in Procs :
             (pc[p] \in {"get_card", "set"} /\ pc'[p] # pc[p])
             => /\ DOMAIN users' = DOMAIN users
                /\ \A u \in DOMAIN users : IdSeq(users'[u]) = IdSeq(users[u])
        /\ \A u \in DOMAIN users :
             (u \notin DOMAIN users' \/ LostEntry(users[u], users'[u]))
             => \E p \in Procs : /\ pc[p] = "delete_one" /\ pc'[p] = "done"
                                 /\ call[p].user_id = u
      ]_vars

\* C6's case: a remove returned True, both counters of the entry are zero or
\* below, and the entry is still in the album.
C6_Witness ==
    \E p \in Procs : \E u \in DOMAIN users : \E i \in 1..Len(users[u]) :
        /\ pc[p] = "done" /\ ret[p] = "True"
        /\ users[u][i].unidolized_count <= 0
        /\ users[u][i].idolized_count <= 0

\* C9: insert_user for a user id the collection holds ends in DuplicateKeyError
\* and leaves the collection as it was, the user's album included; for an
\* absent id it adds that user with an empty album and changes no other user.
C9_Create ==
    [][ \A p \in Procs :
          (pc[p] = "insert_one" /\ pc'[p] = "done" /\ ret'[p] # "StoreError")
          => IF call[p].user_id \in DOMAIN users
             THEN ret'[p] = "DuplicateKeyError" /\ users' = users
             ELSE /\ ret'[p] = "None"
                  /\ DOMAIN users' = DOMAIN users \cup {call[p].user_id}
                  /\ users'[call[p].user_id] = <<>>
                  /\ \A u \in DOMAIN users : users'[u] = users[u]
      ]_vars

\* C9's case: an insert_user ended in DuplicateKeyError and the user's album
\* still has its entry.
C9_Witness ==
    \E p \in Procs : \E u \in DOMAIN users :
        /\ pc[p] = "done" /\ ret[p] = "DuplicateKeyError"
        /\ users[u] # <<>>

\* The album a user has after the cards cs were added to the album old, one
\* after the other: an entry per card id of old and of cs; an old entry has
\* its selected counter raised by the card's occurrences in cs; a new entry
\* has 1 unidolized and the selected counter raised by the further occurrences.
AlbumAfter(old, new, cs, idolized) ==
    /\ IdSet(new) = IdSet(old) \cup {cs[i] : i \in 1..Len(cs)}
    /\ \A c \in IdSet(new) : Cardinality(Matches(new, c)) = 1
    /\ \A i \in 1..Len(new) :
         LET e == new[i]
             k == Occurrences(cs, e.id)
         IN  IF e.id \in IdSet(old)
             THEN e = [EntryFor(old, e.id) EXCEPT
                          !.idolized_count = @ + (IF idolized THEN k ELSE 0),
                          !.unidolized_count = @ + (IF idolized THEN 0 ELSE k)]
             ELSE /\ e.unidolized_count = 1 + (IF idolized THEN 0 ELSE k - 1)
                  /\ e.idolized_count = (IF idolized THEN k - 1 ELSE 0)

\* The users collection after the first k cards of call c were added.
Committed(c, before, k) ==
    IF c.user_id \notin DOMAIN before THEN users = before
    ELSE /\ DOMAIN users = DOMAIN before
         /\ \A u \in DOMAIN users \ {c.user_id} : users[u] = before[u]
         /\ AlbumAfter(before[c.user_id], users[c.user_id],
                       SubSeq(c.new_cards, 1, k), c.idolized)

\* While a call of add_to_user_album runs alone, the cards before the one in
\* hand are committed and no later one is; after its return all are; after a
\* failure some proper prefix is.
C10_Prefix ==
    \A p \in Procs :
        LET c == pre[p].call
            n == Len(c.new_cards)
        IN  (c.op = "add_to_user_album" /\ n > 0)
            => IF pc[p] \in {"has_card", "push", "inc"}
               THEN Committed(c, pre[p].users, n - Len(call[p].new_cards))
               ELSE IF ret[p] = "None"
               THEN Committed(c, pre[p].users, n)
               ELSE \E k \in 0..(n - 1) : Committed(c, pre[p].users, k)

\* C10: add_to_user_album(user, [c1..cn]), run alone, commits its cards in
\* list order, each before the next is examined (a card twice in the list,
\* not owned before, ends as one entry with unidolized_count 2); a failing
\* round trip ends the call in that failure and changes nothing, so the cards
\* before the failing one stay committed and it and the later ones are not.
C10_BatchPrefix ==
    /\ []C10_Prefix
    /\ [][ \A p \in Procs :
             (pc[p] \in {"has_card", "push", "inc"}
                 /\ ret'[p] \in {"StoreError", "AttributeError"})
             => users' = users /\ pc'[p] = "done"
         ]_vars

\* C10's case: a call with two cards failed at its second card and the first
\* card's entry is in the store.
C10_Witness ==
    \E p \in Procs :
        /\ Ended(p, "add_to_user_album") /\ ret[p] = "StoreError"
        /\ Len(pre[p].call.new_cards) = 2
        /\ users # pre[p].users

\* The positions in the history of the upserts of card id, and the last one.
UpsertsOf(id) == {i \in 1..Len(hist) : hist[i]["id"] = id}
LastUpsert(id) == hist[CHOOSE i \in UpsertsOf(id) : \A j \in UpsertsOf(id) : j <= i]

\* The last upsert of card id that carried field f.
LastCarrying(id, f) ==
    hist[CHOOSE i \in UpsertsOf(id) :
            /\ f \in DOMAIN hist[i]
            /\ \A j \in UpsertsOf(id) : f \in DOMAIN hist[j] => j <= i]

\* The catalog has exactly one document per upserted id, keyed by it.
OnePerUpsertedId ==
    /\ DOMAIN cards = {hist[i]["id"] : i \in 1..Len(hist)}
    /\ \A id \in DOMAIN cards : cards[id]["_id"] = id

\* C7 as stated: the document of an id equals the last card upserted with that
\* id, field for field, and keeps no field that card does not carry.
C7_FullReplace ==
    /\ OnePerUpsertedId
    /\ \A id \in DOMAIN cards :
         /\ DOMAIN cards[id] \ {"_id"} = DOMAIN LastUpsert(id) \ {"id"}
         /\ \A f \in DOMAIN LastUpsert(id) \ {"id"} : cards[id][f] = LastUpsert(id)[f]

\* The document of an id has the fields any upsert of that id carried, each
\* with the value of the last upsert that carried it.
C7_Merged ==
    /\ OnePerUpsertedId
    /\ \A id \in DOMAIN cards :
         /\ DOMAIN cards[id] \ {"_id"} =
               UNION {DOMAIN hist[i] \ {"id"} : i \in UpsertsOf(id)}
         /\ \A f \in DOMAIN cards[id] \ {"_id"} : cards[id][f] = LastCarrying(id, f)[f]

\* C7, amended: the catalog holds exactly one document per upserted id; it
\* has every field of the last card upserted with that id, with that card's
\* value, and it retains a field an earlier version carried and the last does
\* not, with the value of the last version that carried it. Upserting the
\* card just upserted again leaves the catalog as it is.
C7_UpsertMerges ==
    /\ []C7_Merged
    /\ [][ (Len(hist) > 0 /\ hist' = Append(hist, hist[Len(hist)])) => cards' = cards ]_vars

\* C7's case: card 1 was upserted with a rarity and then without one, and the
\* catalog's document still has the rarity.
C7_Witness ==
    /\ Len(hist) = 2
    /\ hist[1]["id"] = 1 /\ hist[2]["id"] = 1
    /\ "rarity" \in DOMAIN hist[1] /\ "rarity" \notin DOMAIN hist[2]
    /\ "rarity" \in DOMAIN cards[1] /\ cards[1]["rarity"] = hist[1]["rarity"]

\* C8: get_random_cards(filters, count) returns at most count cards, none
\* twice, each a card of the catalog that passes the filter, all the matching
\* cards when they are fewer than count, and none when nothing matches.
C8_RandomCards ==
    result.op = "returned" =>
        LET r == result.cards
            matching == Matching(cards, result.filters)
        IN  /\ Len(r) <= result.count
            /\ \A i, j \in 1..Len(r) : r[i] = r[j] => i = j
            /\ \A i \in 1..Len(r) :
                  /\ r[i]["_id"] \in DOMAIN cards /\ cards[r[i]["_id"]] = r[i]
                  /\ MatchFilters(r[i], result.filters)
            /\ Cardinality(matching) < result.count
                  => matching \subseteq {r[i] : i \in 1..Len(r)}
            /\ matching = {} => r = <<>>

\* C11: no write of add_to_user_album or remove_from_user_album changes the
\* timestamp of an entry: a $inc or a $set leaves every entry's id and
\* timestamp in place, and a $push adds one entry, stamped with a clock
\* reading, to the ones there.
C11_TimestampOnce ==
    [][ \A p \in Procs :
          (pc[p] \in {"push", "inc", "set"} /\ pc'[p] # pc[p] /\ users' # users)
          => LET u == call[p].user_id
             IN  \/ /\ pc[p] # "push"
                    /\ Len(users'[u]) = Len(users[u])
                    /\ \A i \in 1..Len(users[u]) :
                          /\ users'[u][i].id = users[u][i].id
                          /\ users'[u][i].time_aquired = users[u][i].time_aquired
                 \/ /\ pc[p] = "push"
                    /\ Len(users'[u]) = Len(users[u]) + 1
                    /\ \E k \in 1..Len(users'[u]) :
                          /\ users'[u][k] = call[p].card
                          /\ users'[u][k].time_aquired <= now
                          /\ \A i \in 1..Len(users[u]) :
                                \E j \in 1..Len(users'[u]) \ {k} : users'[u][j] = users[u][i]
      ]_vars

\* C11's case: an entry made at clock reading 1 was incremented since, or had
\* cards removed, and still carries that timestamp.
C11_Witness ==
    \E u \in DOMAIN users : \E i \in 1..Len(users[u]) :
        /\ users[u][i].time_aquired = 1
        /\ users[u][i].unidolized_count # 1 \/ users[u][i].idolized_count # 0

\* A delete_user call has ended: without the user the store is as the call
\* found it; else that user's document is gone and the others are as they were.
C12_Deleted ==
    \A p \in Procs :
        LET c == pre[p].call
            before == pre[p].users
        IN  (Ended(p, "delete_user") /\ ret[p] # "StoreError")
            => /\ ret[p] = "None"
               /\ IF c.user_id \notin DOMAIN before THEN users = before
                  ELSE /\ DOMAIN users = DOMAIN before \ {c.user_id}
                       /\ \A u \in DOMAIN users : users[u] = before[u]

\* C12: delete_user for an absent user id returns without an exception and
\* leaves the users collection as it was; for an existing user it removes that
\* user's document, album included, and leaves every other user's document as
\* it was. No step of it changes the card catalog.
C12_Delete ==
    /\ []C12_Deleted
    /\ [][ \A p \in Procs : pc[p] = "delete_one" => cards' = cards ]_vars

\* C12's case: a delete_user of an existing user has returned, and another
\* user's document, with an entry in its album, and the catalog's card are there.
C12_Witness ==
    \E p \in Procs : \E v \in DOMAIN users :
        /\ Ended(p, "delete_user") /\ ret[p] = "None"
        /\ pre[p].call.user_id \in DOMAIN pre[p].users
        /\ pre[p].call.user_id \notin DOMAIN users
        /\ Len(users[v]) > 0
        /\ cards # <<>>

\* C13: get_cards(card_ids) returns, for every catalog and every list, the
\* cards whose ids are the requested ids the catalog has, each once (none when
\* the catalog has none of them), as the projection shows them; get_card
\* returns the card with the id, or None when the catalog has none.
C13_GetCards ==
    LET r == result.cards
        wanted == Range(result.card_ids) \cap DOMAIN cards
    IN  /\ result.op = "got_cards"
            => /\ {r[i]["_id"] : i \in 1..Len(r)} = wanted
               /\ Len(r) = Cardinality(wanted)
               /\ \A i \in 1..Len(r) : r[i] = Project(cards[r[i]["_id"]])
        /\ result.op = "got_card"
            => IF wanted = {} THEN r = <<>>
               ELSE r = <<Project(cards[result.card_ids[1]])>>

\* C14: get_user_album returns [] for a user the collection has not and for
\* one just inserted, else the stored album as it is; get_card_from_album
\* returns an entry of the user's album with the id asked for when there is
\* one, and None without the user or without such an entry. Neither changes
\* the users collection.
C14_AlbumReads ==
    \A p \in Procs :
        LET c == pre[p].call
            before == pre[p].users
        IN  /\ (Ended(p, "get_user_album") /\ ret[p] = "value")
                => /\ users = before
                   /\ result.value = IF c.user_id \in DOMAIN before
                                     THEN before[c.user_id] ELSE <<>>
            /\ (Ended(p, "get_card_from_album") /\ ret[p] = "value")
                => /\ users = before
                   /\ IF c.user_id \in DOMAIN before
                         /\ c.card_id \in IdSet(before[c.user_id])
                      THEN /\ Len(result.value) = 1
                           /\ result.value[1] \in Range(before[c.user_id])
                           /\ result.value[1].id = c.card_id
                      ELSE result.value = <<>>

\* C14's case: get_card_from_album returned the entry of card 2, the second
\* of the album's two entries.
C14_Witness ==
    \E p \in Procs :
        /\ Ended(p, "get_card_from_album") /\ ret[p] = "value"
        /\ pre[p].call.card_id = 2
        /\ pre[p].call.user_id \in DOMAIN users
        /\ IdSeq(users[pre[p].call.user_id]) = <<1, 2>>
        /\ result.value = <<users[pre[p].call.user_id][2]>>

\* C15: when add_to_user_album and remove_from_user_album calls for one user
\* and one owned card interleave, no counter update is lost: the write of a
\* remove lowers the selected counter of the entry, as the store holds it at
\* that moment, by count and leaves the other counter as the store holds it,
\* so that increments applied since the remove's lookup stay.
C15_NoLostUpdate ==
    [][ \A p \in Procs :
          LET u == call[p].user_id
              c == call[p].card_id
          IN  ( /\ pc[p] = "set" /\ ret'[p] = "True"
                /\ u \in DOMAIN users /\ Matches(users[u], c) # {} )
              => LET i == Min(Matches(users[u], c))
                     old == users[u][i]
                     new == users'[u][i]
                 IN  /\ new.idolized_count =
                          old.idolized_count - (IF call[p].idolized THEN call[p].count ELSE 0)
                     /\ new.unidolized_count =
                          old.unidolized_count - (IF call[p].idolized THEN 0 ELSE call[p].count)
      ]_vars

\* C16: remove_from_user_album returns True only when its write removed cards:
\* at the step that returns True the user's document has an entry for the
\* card and the write leaves that entry's selected counter lower, by count,
\* than the store held it; also when a delete_user or another call for the
\* user ran between the lookup and the write.
C16_TrueMeansRemoved ==
    [][ \A p \in Procs :
          LET u == call[p].user_id
              c == call[p].card_id
          IN  (pc[p] = "set" /\ ret'[p] = "True")
              => /\ u \in DOMAIN users /\ Matches(users[u], c) # {}
                 /\ u \in DOMAIN users' /\ Matches(users'[u], c) # {}
                 /\ LET old == users[u][Min(Matches(users[u], c))]
                        new == users'[u][Min(Matches(users'[u], c))]
                    IN  IF call[p].idolized
                        THEN new.idolized_count = old.idolized_count - call[p].count
                        ELSE new.unidolized_count = old.unidolized_count - call[p].count
      ]_vars

\* C17: album mutations never create users. A has-card check of
\* add_to_user_album that finds no document for the user ends the call in an
\* exception, not in a return, and changes nothing; and in every step, under
\* any interleaving, the set of user ids changes only by an insert_one, which
\* adds its id, or a delete_one, which removes its id.
C17_NoUserFromAlbum ==
    [][ /\ \A p \in Procs :
             ( /\ pc[p] = "has_card" /\ pc'[p] # pc[p]
               /\ call[p].user_id \notin DOMAIN users )
             => /\ pc'[p] = "done"
                /\ ret'[p] \in {"AttributeError", "StoreError"}
                /\ users' = users
        /\ \/ DOMAIN users' = DOMAIN users
           \/ \E p \in Procs :
                \/ /\ pc[p] = "insert_one" /\ ret'[p] = "None"
                   /\ DOMAIN users' = DOMAIN users \cup {call[p].user_id}
                \/ /\ pc[p] = "delete_one" /\ ret'[p] = "None"
                   /\ DOMAIN users' = DOMAIN users \ {call[p].user_id}
      ]_vars

\* C17's case: an add_to_user_album call has ended in AttributeError, another
\* call has ended too, and the collection has no user.
C17_Witness ==
    \E p, q \in Procs :
        /\ p # q
        /\ pc[p] = "done" /\ ret[p] = "AttributeError"
        /\ pc[q] = "done" /\ ret[q] = "None"
        /\ DOMAIN users = {}

\* The cards an album counts: the sum of both counters of its first n entries.
RECURSIVE CardsCounted(_, _)
CardsCounted(album, n) ==
    IF n = 0 THEN 0
    ELSE CardsCounted(album, n - 1) + album[n].unidolized_count + album[n].idolized_count

\* The add_to_user_album calls in flight.
InFlight == {p \in Procs : pc[p] \in {"has_card", "inc"}}

\* C18: when add_to_user_album calls for cards the user owned before any of
\* them started interleave, with no other call in flight, no increment is
\* lost: the album keeps one entry per card, and with every entry first at
\* (1, 0) its counters sum to the entries plus the calls completed; each $inc
\* raises the selected counter of the card's entry by 1 and leaves the other
\* counter and the other entries as they are.
C18_IncrementsKept ==
    /\ [](\A u \in DOMAIN users :
            /\ \A i, j \in 1..Len(users[u]) : users[u][i].id = users[u][j].id => i = j
            /\ CardsCounted(users[u], Len(users[u]))
                 = Len(users[u]) + calls - Cardinality(InFlight))
    /\ [][ \A p \in Procs :
             (pc[p] = "inc" /\ pc'[p] # pc[p])
             => LET u == call[p].user_id
                    c == Head(call[p].new_cards)
                IN  /\ Len(users'[u]) = Len(users[u])
                    /\ \A i \in 1..Len(users[u]) :
                         users'[u][i] =
                            IF users[u][i].id # c THEN users[u][i]
                            ELSE IF call[p].idolized
                            THEN [users[u][i] EXCEPT !.idolized_count = @ + 1]
                            ELSE [users[u][i] EXCEPT !.unidolized_count = @ + 1]
         ]_vars

\* C18's case: two calls for card 1, one for each counter, were in flight
\* together and have completed; the entry of card 1 went from (1, 0) to (2, 1)
\* and the entry of card 2 is as it was.
C18_Witness ==
    \E u \in DOMAIN users :
        /\ \A p \in Procs : pc[p] = "done" /\ ret[p] = "None"
        /\ calls = NProcs
        /\ Len(users[u]) = 2
        /\ users[u][1].unidolized_count = 2 /\ users[u][1].idolized_count = 1
        /\ users[u][2].unidolized_count = 1 /\ users[u][2].idolized_count = 0

\* The users collection with the document of user u only.
Only(us, u) == [x \in DOMAIN us \cap {u} |-> us[x]]

\* The step coroutine p takes for its user u is the step it takes on a store
\* that holds the document of u alone: what it reads and what it writes.
AsAlone(p, u) ==
    CASE pc[p] = "has_card" ->
            /\ users' = users
            /\ LET has == UserHasCard(Only(users, u), u, Head(call[p].new_cards))
               IN  pc'[p] = (IF has = "yes" THEN "inc" ELSE IF has = "no" THEN "push" ELSE "done")
      [] pc[p] = "push" ->
            Only(users', u) \in PushToAlbum(Only(users, u), u, call[p].card)
      [] pc[p] = "inc" ->
            Only(users', u) = IncInAlbum(Only(users, u), u, Head(call[p].new_cards),
                                         call[p].idolized)
      [] pc[p] = "get_card" ->
            /\ users' = users
            /\ LET card == GetCardFromAlbum(Only(users, u), u, call[p].card_id)
               IN  IF card = <<>> THEN pc'[p] = "done" /\ ret'[p] = "False"
                   ELSE pc'[p] = "set" /\ call'[p].card = card[1]
      [] pc[p] = "set" ->
            Only(users', u) = SetInAlbum(Only(users, u), u, call[p].card_id,
                                         NewCounts(call[p].card, call[p].idolized,
                                                   call[p].count))
      [] OTHER -> users' = users

\* C19: calls for different users do not interfere. Under any interleaving of
\* add_to_user_album and remove_from_user_album calls, a step of a call for
\* user u leaves every other user's document and the card catalog as they are,
\* and reads and writes the document of u as it would with no other user in
\* the store, so that each user's album is the one the calls for that user
\* alone produce.
C19_NoInterference ==
    [][ \A p \in Procs :
          pc'[p] # pc[p]
          => LET u == IF Idle(p) THEN call'[p].user_id ELSE call[p].user_id
             IN  /\ cards' = cards
                 /\ DOMAIN users' = DOMAIN users
                 /\ \A v \in DOMAIN users \ {u} : users'[v] = users[v]
                 /\ AsAlone(p, u)
      ]_vars

\* C19's case: an add for u1 and a remove for u2 have both completed; u1's
\* entry of card 1 went from (1, 0) to (2, 0) and u2's from (1, 0) to (0, 0).
C19_Witness ==
    /\ \A p \in Procs : pc[p] = "done"
    /\ DOMAIN users = AllUserIds
    /\ IdSeq(users["u1"]) = <<1>> /\ IdSeq(users["u2"]) = <<1>>
    /\ users["u1"][1].unidolized_count = 2 /\ users["u1"][1].idolized_count = 0
    /\ users["u2"][1].unidolized_count = 0 /\ users["u2"][1].idolized_count = 0

====
